---- MODULE Spec2Model ----
(***************************************************************************)
(* Model of the sql-builder core of sf-etl: the column type taxonomy       *)
(* (sql/types.rs), the Table aggregate (sql/table.rs) and the Postgres     *)
(* renderer (sql/generators/pg.rs), the command-line pipeline             *)
(* (sql-builder/src/main.rs) and the Salesforce client                     *)
(* (oxidized-force/src/client.rs).                                         *)
(*                                                                         *)
(* Text is modelled by TLA+ strings, so that rendering is compared byte    *)
(* for byte.  Option<T> is a sequence of length 0 (None) or 1 (Some).      *)
(* A call that can panic returns [ok, text]; ok = FALSE is the panic.      *)
(***************************************************************************)
EXTENDS Integers, Sequences, FiniteSets, TLC

VARIABLES
  cur,       \* the Type value under construction (types.rs Type)
  applied,   \* per modifier, the argument of its most recent call on cur
  elem,      \* the descriptor behind the &Type handed to array(), after it
  col,       \* Option<result> of the last Pg::create_column call
  name,      \* Table.name
  columns,   \* Table.columns: HashMap<String, Type>
  order,     \* the iteration order of the HashMap columns
  calls,     \* the add_column calls made so far, oldest first
  out,       \* Option<result> of the most recent generate call
  prevOut,   \* Option<result> of the generate call before it, same table
  lastOp,    \* the operation that made the last step
  panicked,  \* a panic has unwound the thread
  client,    \* the Client (client.rs), without its reqwest::Client
  lastLogin, \* Option<TokenResponse> of the latest successful login
  failedSince, \* a login has failed since then (or since create)
  req,       \* Option<request> the last client operation sent
  result,    \* Option<Result> the last client operation returned
  pc,        \* the position of main
  todo,      \* the number of fields of desc.fields still to be mapped
  field,     \* Option<Field>: the field the loop of main mapped last
  file       \* the output file

typeVars  == <<cur, applied, elem, col>>
tableVars == <<name, columns, order, calls, out, prevOut>>
clientVars == <<client, lastLogin, failedSince, req, result>>
mainVars  == <<pc, todo, field, file>>
ioVars    == <<client, lastLogin, failedSince, req, result, pc, todo, field,
               file>>
vars      == <<cur, applied, elem, col, name, columns, order, calls, out,
               prevOut, lastOp, panicked, client, lastLogin, failedSince,
               req, result, pc, todo, field, file>>

\* ---------------------------------------------------------------- bounds
MaxDepth == 2      \* nesting depth of array(array(...)) explored
MaxAdds  == 3      \* number of add_column calls explored
MaxFields == 2     \* number of fields in a describe response explored

\* ------------------------------------------------------------- Option<T>
None    == <<>>
Some(v) == <<v>>

\* ------------------------------------------------------- call results
Ok(s) == [ok |-> TRUE, text |-> s]
Panic == [ok |-> FALSE, text |-> ""]

\* --------------------------------------------------- BaseType (types.rs)
Varchar(len)      == [tag |-> "Varchar", len |-> len]
Foreign(tbl, ks)  == [tag |-> "Foreign", table |-> tbl, refs |-> ks]
Custom(sql)       == [tag |-> "Custom", sql |-> sql]
ArrayOf(b)        == [tag |-> "Array", of |-> b]
Index(cs)         == [tag |-> "Index", cols |-> cs]
Unit(t)           == [tag |-> t]

UnitTags == {"Boolean", "Integer", "BigInt", "Text", "Float", "Double",
             "Jsonb", "DateTime", "Time", "Date"}

\* the base types the constructor functions are called with
ScalarBases ==
  {Unit(t) : t \in UnitTags}
    \cup {Varchar(None), Varchar(Some(0)), Varchar(Some(255))}
    \cup {Custom("SERIAL")}
    \cup {Foreign("Account", <<"Id">>), Foreign("Owner", <<"Id", "Name">>)}
    \cup {Index(<<"a", "b">>)}

RECURSIVE Depth(_)
Depth(b) == IF b.tag = "Array" THEN 1 + Depth(b.of) ELSE 0

RECURSIVE ContainsIndex(_)
ContainsIndex(b) ==
  IF b.tag = "Array" THEN ContainsIndex(b.of) ELSE b.tag = "Index"

\* ----------------------------------------------- WrappedDefault (types.rs)
DText(v)    == [tag |-> "Text", val |-> v]
DInteger(v) == [tag |-> "Integer", val |-> v]
DBoolean(v) == [tag |-> "Boolean", val |-> v]
DCustom(v)  == [tag |-> "Custom", val |-> v]

DefaultValues == {DText("Open"), DInteger(-7), DBoolean(TRUE)}

\* impl Display for WrappedDefault
DisplayDefault(d) ==
  CASE d.tag = "Text"    -> d.val
    [] d.tag = "Integer" -> ToString(d.val)
    [] d.tag = "Boolean" -> (IF d.val THEN "true" ELSE "false")
    [] d.tag = "Custom"  -> d.val

\* ------------------------------------------------------- Type (types.rs)
\* a Default whose columns start out nullable
TypeDefaultNullable ==
  [default |-> None, size |-> None, inner |-> Unit("Integer"),
   nullable |-> TRUE, unique |-> FALSE, increments |-> FALSE,
   indexed |-> FALSE, primary |-> FALSE]

\* impl Default for Type
TypeDefault ==
  [default |-> None, size |-> None, inner |-> Unit("Integer"),
   nullable |-> FALSE, unique |-> FALSE, increments |-> FALSE,
   indexed |-> FALSE, primary |-> FALSE]

\* Type::new
New(inner) == [TypeDefault EXCEPT !.inner = inner]

\* the chained modifiers, Self { field: val, ..self }
Nullable(tp, val)   == [tp EXCEPT !.nullable = val]
Unique(tp, val)     == [tp EXCEPT !.unique = val]
Increments(tp, val) == [tp EXCEPT !.increments = val]
Indexed(tp, val)    == [tp EXCEPT !.indexed = val]
PrimaryNotNull(tp, val) ==
  [tp EXCEPT !.primary = val, !.nullable = IF val THEN FALSE ELSE @]
Primary(tp, val)    == [tp EXCEPT !.primary = val]
Size(tp, val)       == [tp EXCEPT !.size = Some(val)]
Default(tp, arg)    == [tp EXCEPT !.default = Some(arg)]

\* Type::inner
Inner(tp) == tp.inner

\* an array() that wraps the descriptor in place and keeps its modifiers
ArrayKeeping(tp) == [tp EXCEPT !.inner = ArrayOf(Inner(tp))]

\* pub fn array(inner: &Type) -> Type
Array(tp) == New(ArrayOf(Inner(tp)))

Modifiers == {"nullable", "unique", "increments", "indexed", "primary",
              "size", "default"}

SizeValues == {255}

\* the arguments a modifier is called with
ModifierArgs(m) ==
  CASE m = "size"    -> SizeValues
    [] m = "default" -> DefaultValues
    [] OTHER         -> BOOLEAN

\* dispatch of a modifier call by name
Apply(m, tp, val) ==
  CASE m = "nullable"   -> Nullable(tp, val)
    [] m = "unique"     -> Unique(tp, val)
    [] m = "increments" -> Increments(tp, val)
    [] m = "indexed"    -> Indexed(tp, val)
    [] m = "primary"    -> Primary(tp, val)
    [] m = "size"       -> Size(tp, val)
    [] m = "default"    -> Default(tp, val)

\* ------------------------------------------- Pg renderer (generators/pg.rs)
\* Vec<String>::join(",")
RECURSIVE JoinComma(_)
JoinComma(s) ==
  IF Len(s) = 0 THEN ""
  ELSE IF Len(s) = 1 THEN s[1]
  ELSE s[1] \o "," \o JoinComma(Tail(s))

\* a stringify without the special case of length 0
RECURSIVE StringifyZeroLen(_)
StringifyZeroLen(tp) ==
  CASE tp.tag = "Foreign" ->
         Ok("VARCHAR REFERENCES \"" \o tp.table \o "\" ("
              \o JoinComma(tp.refs) \o ")")
    [] tp.tag = "Custom"  -> Ok(tp.sql)
    [] tp.tag = "Array"   ->
         LET r == StringifyZeroLen(tp.of)
         IN  IF r.ok THEN Ok(r.text \o "[]") ELSE Panic
    [] tp.tag = "Varchar" ->
         IF tp.len = None THEN Ok("VARCHAR")
         ELSE Ok("VARCHAR(" \o ToString(tp.len[1]) \o ")")
    [] tp.tag = "Boolean"  -> Ok("BOOLEAN")
    [] tp.tag = "Integer"  -> Ok("INTEGER")
    [] tp.tag = "BigInt"   -> Ok("BIGINT")
    [] tp.tag = "Text"     -> Ok("TEXT")
    [] tp.tag = "Float"    -> Ok("FLOAT")
    [] tp.tag = "Double"   -> Ok("DOUBLE PRECISION")
    [] tp.tag = "Jsonb"    -> Ok("JSONB")
    [] tp.tag = "Time"     -> Ok("TIME")
    [] tp.tag = "Date"     -> Ok("DATE")
    [] tp.tag = "DateTime" -> Ok("TIMESTAMP")
    [] OTHER               -> Panic

\* Pg::stringify; the catch-all arm is unreachable!(), a panic
RECURSIVE Stringify(_)
Stringify(tp) ==
  CASE tp.tag = "Foreign" ->
         Ok("VARCHAR REFERENCES \"" \o tp.table \o "\" ("
              \o JoinComma(tp.refs) \o ")")
    [] tp.tag = "Custom"  -> Ok(tp.sql)
    [] tp.tag = "Array"   ->
         LET r == Stringify(tp.of)
         IN  IF r.ok THEN Ok(r.text \o "[]") ELSE Panic
    [] tp.tag = "Varchar" ->
         IF tp.len = None THEN Ok("VARCHAR")
         ELSE IF tp.len[1] = 0 THEN Ok("VARCHAR")
         ELSE Ok("VARCHAR(" \o ToString(tp.len[1]) \o ")")
    [] tp.tag = "Boolean"  -> Ok("BOOLEAN")
    [] tp.tag = "Integer"  -> Ok("INTEGER")
    [] tp.tag = "BigInt"   -> Ok("BIGINT")
    [] tp.tag = "Text"     -> Ok("TEXT")
    [] tp.tag = "Float"    -> Ok("FLOAT")
    [] tp.tag = "Double"   -> Ok("DOUBLE PRECISION")
    [] tp.tag = "Jsonb"    -> Ok("JSONB")
    [] tp.tag = "Time"     -> Ok("TIME")
    [] tp.tag = "Date"     -> Ok("DATE")
    [] tp.tag = "DateTime" -> Ok("TIMESTAMP")
    [] OTHER               -> Panic

\* Pg::create_table
CreateTable(n) == <<"CREATE TABLE \"" \o n \o "\" (\n", "\n)">>

\* a create_column that emits UNIQUE before NOT NULL
CreateColumnUniqueFirst(n, tp) ==
  LET inner == Inner(tp)
      head  == IF inner.tag = "Index" THEN Panic
               ELSE LET tok == Stringify(inner)
                    IN  IF tok.ok THEN Ok("\"" \o n \o "\" " \o tok.text)
                        ELSE Panic
  IN  IF ~head.ok THEN Panic
      ELSE Ok(head.text
                \o (IF tp.primary THEN " PRIMARY KEY" ELSE "")
                \o (IF tp.default # None
                      THEN " DEFAULT '" \o DisplayDefault(tp.default[1]) \o "'"
                      ELSE "")
                \o (IF tp.unique THEN " UNIQUE" ELSE "")
                \o (IF tp.nullable THEN "" ELSE " NOT NULL"))

\* a create_column whose Index arm renders text instead of panicking
CreateColumnIndexText(n, tp) ==
  LET inner == Inner(tp)
      head  == IF inner.tag = "Index"
                 THEN Ok("\"" \o n \o "\" INDEX (" \o JoinComma(inner.cols) \o ")")
               ELSE LET tok == Stringify(inner)
                    IN  IF tok.ok THEN Ok("\"" \o n \o "\" " \o tok.text)
                        ELSE Panic
  IN  IF ~head.ok THEN Panic
      ELSE Ok(head.text
                \o (IF tp.primary THEN " PRIMARY KEY" ELSE "")
                \o (IF tp.default # None
                      THEN " DEFAULT '" \o DisplayDefault(tp.default[1]) \o "'"
                      ELSE "")
                \o (IF tp.nullable THEN "" ELSE " NOT NULL")
                \o (IF tp.unique THEN " UNIQUE" ELSE ""))

\* a create_column that renders the size and increments settings
CreateColumnSized(n, tp) ==
  LET inner == Inner(tp)
      head  == IF inner.tag = "Index" THEN Panic
               ELSE LET tok == Stringify(inner)
                    IN  IF tok.ok THEN Ok("\"" \o n \o "\" " \o tok.text)
                        ELSE Panic
  IN  IF ~head.ok THEN Panic
      ELSE Ok(head.text
                \o (IF tp.size # None
                      THEN "(" \o ToString(tp.size[1]) \o ")" ELSE "")
                \o (IF tp.increments THEN " GENERATED ALWAYS AS IDENTITY" ELSE "")
                \o (IF tp.primary THEN " PRIMARY KEY" ELSE "")
                \o (IF tp.default # None
                      THEN " DEFAULT '" \o DisplayDefault(tp.default[1]) \o "'"
                      ELSE "")
                \o (IF tp.nullable THEN "" ELSE " NOT NULL")
                \o (IF tp.unique THEN " UNIQUE" ELSE ""))

\* Pg::create_column: the arguments of format! are evaluated first, so the
\* panic of the Index arm (or of stringify) leaves no text behind
CreateColumn(n, tp) ==
  LET inner == Inner(tp)
      head  == IF inner.tag = "Index" THEN Panic
               ELSE LET tok == Stringify(inner)
                    IN  IF tok.ok THEN Ok("\"" \o n \o "\" " \o tok.text)
                        ELSE Panic
  IN  IF ~head.ok THEN Panic
      ELSE Ok(head.text
                \o (IF tp.primary THEN " PRIMARY KEY" ELSE "")
                \o (IF tp.default # None
                      THEN " DEFAULT '" \o DisplayDefault(tp.default[1]) \o "'"
                      ELSE "")
                \o (IF tp.nullable THEN "" ELSE " NOT NULL")
                \o (IF tp.unique THEN " UNIQUE" ELSE ""))

\* ------------------------------------------------- Table (sql/table.rs)
ColumnNames == {"id", "Description", "AccountId"}
TableNames  == {"Case", "Lead"}

\* the descriptors add_column is called with
ColumnInputs ==
  {Primary(New(Varchar(None)), TRUE),
   New(Foreign("Account", <<"Id">>)),
   Unique(Nullable(Default(New(Unit("Text")), DText("Open")), TRUE), TRUE),
   New(Index(<<"a", "b">>)),
   Array(New(Index(<<"a", "b">>)))}

\* the orders in which a HashMap holding the keys S may iterate them
Perms(S) ==
  {s \in [1..Cardinality(S) -> S] :
     \A i, j \in 1..Cardinality(S) : i # j => s[i] # s[j]}

\* an insert that keeps the value of a present entry (entry().or_insert)
InsertIfAbsent(cols, n, tp) ==
  [k \in DOMAIN cols \cup {n} |->
     IF k \in DOMAIN cols THEN cols[k] ELSE tp]

\* HashMap::insert: a new entry, or the value of the present one replaced
Insert(cols, n, tp) ==
  [k \in DOMAIN cols \cup {n} |-> IF k = n THEN tp ELSE cols[k]]

\* an iteration that writes through the &mut Type it is handed
IterMutWriting(cols) == [k \in DOMAIN cols |-> Nullable(cols[k], TRUE)]

\* the entries as iter_mut leaves them: the closure of generate binds them
\* by `ref` and assigns through none of them
IterMut(cols) == cols

\* an iteration that leaves the buckets in another order
OrderAfterIterReversed(ord) == [i \in 1..Len(ord) |-> ord[Len(ord) + 1 - i]]

\* the bucket layout after an iteration: iterating does not rehash
OrderAfterIter(ord) == ord

\* a fold whose separator test is off by one: idx < col_count
RECURSIVE GenerateFoldTrailing(_, _, _, _)
GenerateFoldTrailing(sql, idx, ord, cols) ==
  IF idx >= Len(ord) THEN Ok(sql)
  ELSE LET n == ord[idx + 1]
           c == CreateColumn(n, cols[n])
       IN  IF ~c.ok THEN Panic
           ELSE GenerateFoldTrailing(
                  sql \o c.text
                      \o (IF idx < Len(ord) THEN ",\n" ELSE ""),
                  idx + 1, ord, cols)

\* the fold of Table::generate; idx counts from 0 as enumerate() does, and
\* col_count - 1 is evaluated only inside the closure, where col_count >= 1
RECURSIVE GenerateFold(_, _, _, _)
GenerateFold(sql, idx, ord, cols) ==
  IF idx >= Len(ord) THEN Ok(sql)
  ELSE LET n == ord[idx + 1]
           c == CreateColumn(n, cols[n])
       IN  IF ~c.ok THEN Panic
           ELSE GenerateFold(
                  sql \o c.text
                      \o (IF idx < Len(ord) - 1 THEN ",\n" ELSE ""),
                  idx + 1, ord, cols)

\* Table::generate::<Pg>
Generate(nm, ord, cols) ==
  LET pa == CreateTable(nm)
      r  == GenerateFold(pa[1], 0, ord, cols)
  IN  IF r.ok THEN Ok(r.text \o pa[2]) ELSE Panic

\* ------------------------------------- Client (oxidized-force/client.rs)
\* Result<T>: Ok(val) or Err(err), err the variant of errors.rs Error
RetOk(v)  == [ok |-> TRUE, err |-> "", val |-> v]
RetErr(e) == [ok |-> FALSE, err |-> e, val |-> ""]

\* impl Default for ClientBuilder, then client_id() and client_secret()
BuilderDefault ==
  [client_id |-> Some("top_secret_thingy"),
   client_secret |-> Some("even_more_top_secret_thingy"),
   instance_url |-> None,
   version |-> Some("v49.0"),
   login_endpoint |-> Some("https://login.salesforce.com")]

\* the builders create() is called on: instance_url() and version() called
\* or not
Builders ==
  {[BuilderDefault EXCEPT !.instance_url = iu, !.version = v] :
     iu \in {None, Some("https://old.my.salesforce.com")},
     v \in {Some("v49.0"), Some("v50.0")}}

\* ClientBuilder::create
Create(b) ==
  IF b.client_id = None THEN RetErr("ClientBuilderError")
  ELSE IF b.client_secret = None THEN RetErr("ClientBuilderError")
  ELSE IF b.login_endpoint = None THEN RetErr("ClientBuilderError")
  ELSE IF b.version = None THEN RetErr("ClientBuilderError")
  ELSE RetOk([client_id |-> b.client_id[1],
              client_secret |-> b.client_secret[1],
              login_endpoint |-> b.login_endpoint[1],
              instance_url |-> b.instance_url,
              access_token |-> None,
              base_path |-> None,
              version |-> b.version[1]])

\* the TokenResponse bodies the token endpoint answers with (response.rs)
TokenResponses ==
  {[id |-> "https://login.salesforce.com/id/00DR/005A",
    issued_at |-> "1513887500425",
    access_token |-> "00DR00000008oBT!AQwAQCPqzc",
    instance_url |-> "https://MyDomainName.my.salesforce.com",
    signature |-> "3PiFUIioqKk=",
    token_type |-> "Bearer"],
   [id |-> "https://login.salesforce.com/id/00DR/005B",
    issued_at |-> "1513887509999",
    access_token |-> "00DR00000008oBT!BBBBBBBBBB",
    instance_url |-> "https://other.my.salesforce.com",
    signature |-> "9f8e7d6c5b4=",
    token_type |-> "Bearer"]}

\* what becomes of a request: send() fails, or a response arrives whose
\* status is a success or not and whose body decodes or not
HttpOutcomes(bodies) ==
  {[kind |-> "transport"], [kind |-> "success_undecodable"],
   [kind |-> "failure"], [kind |-> "failure_undecodable"]}
    \cup {[kind |-> "success", body |-> b] : b \in bodies}

\* send().await?, status().is_success(), json().await? of the helpers
Respond(o, failure) ==
  CASE o.kind = "transport"           -> RetErr("HttpError")
    [] o.kind = "success"             -> RetOk(o.body)
    [] o.kind = "success_undecodable" -> RetErr("HttpError")
    [] o.kind = "failure"             -> RetErr(failure)
    [] o.kind = "failure_undecodable" -> RetErr("HttpError")

\* a login that forgets the session when the token request fails
LoginWithCredentialsClearing(cl, o) ==
  LET sent == Some([method |-> "POST",
                    url |-> cl.login_endpoint \o "/services/oauth2/token",
                    auth |-> None, body |-> "grant_type=password"])
  IN  IF o.kind = "success"
        THEN [client |->
                [cl EXCEPT
                   !.access_token = Some([token_type |-> o.body.token_type,
                                          issued_at |-> o.body.issued_at,
                                          value |-> o.body.access_token]),
                   !.instance_url = Some(o.body.instance_url),
                   !.base_path = Some(o.body.instance_url
                                        \o "/services/data/" \o cl.version)],
              req |-> sent, result |-> RetOk("")]
        ELSE [client |-> [cl EXCEPT !.access_token = None,
                                    !.base_path = None],
              req |-> sent, result |-> Respond(o, "TokenError")]

\* a login that keeps an instance URL the client already has
LoginWithCredentialsKeeping(cl, o) ==
  LET sent == Some([method |-> "POST",
                    url |-> cl.login_endpoint \o "/services/oauth2/token",
                    auth |-> None, body |-> "grant_type=password"])
      inst == IF cl.instance_url # None THEN cl.instance_url[1]
              ELSE o.body.instance_url
  IN  IF o.kind = "success"
        THEN [client |->
                [cl EXCEPT
                   !.access_token = Some([token_type |-> o.body.token_type,
                                          issued_at |-> o.body.issued_at,
                                          value |-> o.body.access_token]),
                   !.instance_url = Some(inst),
                   !.base_path = Some(inst
                                        \o "/services/data/" \o cl.version)],
              req |-> sent, result |-> RetOk("")]
        ELSE [client |-> cl, req |-> sent,
              result |-> Respond(o, "TokenError")]

\* Client::login_with_credentials: the three fields are assigned only
\* after the body of a successful response has been decoded
LoginWithCredentials(cl, o) ==
  LET sent == Some([method |-> "POST",
                    url |-> cl.login_endpoint \o "/services/oauth2/token",
                    auth |-> None, body |-> "grant_type=password"])
  IN  IF o.kind = "success"
        THEN [client |->
                [cl EXCEPT
                   !.access_token = Some([token_type |-> o.body.token_type,
                                          issued_at |-> o.body.issued_at,
                                          value |-> o.body.access_token]),
                   !.instance_url = Some(o.body.instance_url),
                   !.base_path = Some(o.body.instance_url
                                        \o "/services/data/" \o cl.version)],
              req |-> sent, result |-> RetOk("")]
        ELSE [client |-> cl, req |-> sent,
              result |-> Respond(o, "TokenError")]

\* an access_token() that hands out an empty token before any login
AccessTokenOrEmpty(cl) ==
  IF cl.access_token # None THEN RetOk(cl.access_token[1])
  ELSE RetOk([token_type |-> "", issued_at |-> "", value |-> ""])

\* Client::access_token
AccessToken(cl) ==
  IF cl.access_token # None THEN RetOk(cl.access_token[1])
  ELSE RetErr("NotAuthenticatedError")

\* Client::base_path
BasePath(cl) ==
  IF cl.base_path # None THEN RetOk(cl.base_path[1])
  ELSE RetErr("NotAuthenticatedError")

\* Client::default_headers: the value of the Authorization header
DefaultHeaders(cl) ==
  IF cl.access_token # None
    THEN RetOk("Bearer " \o cl.access_token[1].value)
    ELSE RetErr("NotAuthenticatedError")

\* the helpers get, post and patch: default_headers()? comes before send()
Send(method, cl, url, body, o) ==
  LET h == DefaultHeaders(cl)
  IN  IF ~h.ok THEN [req |-> None, result |-> RetErr(h.err)]
      ELSE [req |-> Some([method |-> method, url |-> url,
                          auth |-> Some(h.val), body |-> body]),
            result |-> Respond(o, "ResponseError")]

Get(cl, url, body, o)   == Send("GET", cl, url, body, o)
Post(cl, url, body, o)  == Send("POST", cl, url, body, o)
Patch(cl, url, body, o) == Send("PATCH", cl, url, body, o)

\* Client::query
Query(cl, q, o) ==
  LET bp == BasePath(cl)
  IN  IF ~bp.ok THEN [req |-> None, result |-> RetErr(bp.err)]
      ELSE Get(cl, bp.val \o "/query", "q=" \o q, o)

\* Client::describe
Describe(cl, n, o) ==
  LET bp == BasePath(cl)
  IN  IF ~bp.ok THEN [req |-> None, result |-> RetErr(bp.err)]
      ELSE Get(cl, bp.val \o "/sobjects/" \o n \o "/describe", "", o)

\* Client::create_query_job
CreateQueryJob(cl, from, fields, o) ==
  LET query == "SELECT " \o JoinComma(fields) \o " FROM " \o from
      bp    == BasePath(cl)
  IN  IF ~bp.ok THEN [req |-> None, result |-> RetErr(bp.err)]
      ELSE Post(cl, bp.val \o "/jobs/query", query, o)

\* Client::get_query_job_status
GetQueryJobStatus(cl, id, o) ==
  LET bp == BasePath(cl)
  IN  IF ~bp.ok THEN [req |-> None, result |-> RetErr(bp.err)]
      ELSE Get(cl, bp.val \o "/jobs/query/" \o id, "", o)

\* Client::abort_query_job
AbortQueryJob(cl, id, o) ==
  LET bp == BasePath(cl)
  IN  IF ~bp.ok THEN [req |-> None, result |-> RetErr(bp.err)]
      ELSE Patch(cl, bp.val \o "/jobs/query/" \o id, "state=Aborted", o)

\* the arguments the operations are called with
ObjectNames == {"Case"}
JobIds      == {"750R0000000zlh9IAA"}
Queries     == {"SELECT Id FROM Case"}
JobFields   == {<<"Id", "Description">>}
Bodies      == {"{...}"}

\* --------------------------------------- main (sql-builder/src/main.rs)
\* response.rs FieldType
FieldTypes ==
  {"Id", "Base64", "Boolean", "Byte", "Date", "Double", "Int", "Long",
   "String", "Time", "Address", "AnyType", "Calculated", "Currency",
   "Email", "JunctionIdList", "Location", "Percent", "Phone", "Picklist",
   "Reference", "Url", "TextArea", "DateTime", "ComboBox",
   "EncryptedString", "MasterRecord", "MultiPicklist"}

FieldNames == {"Id", "AccountId"}

\* response.rs Field, the members main reads; a relationship name comes
\* with reference fields only, and not with all of them
\* (the field named Id is given three of the kinds, the other field all)
Fields ==
  {f \in [name : FieldNames, length : {0, 255}, nillable : BOOLEAN,
          unique : BOOLEAN, relationship_name : {None, Some("Account")},
          field_type : FieldTypes] :
     /\ (f.relationship_name # None => f.field_type = "Reference")
     /\ (f.length = 0 => f.field_type = "String")
     /\ (f.name = "Id" => f.field_type \in {"Id", "String", "Reference"})}

\* `field.length as usize`, for the lengths used here (none is negative)
AsUsize(n) == n

\* a mapping that takes long for integer
ColumnFromFieldLongAsInt(f) ==
  CASE f.field_type = "MultiPicklist" -> RetOk(Array(New(Varchar(None))))
    [] f.field_type = "Reference" ->
         IF f.relationship_name = None THEN RetErr("panic")
         ELSE RetOk(New(Foreign(f.relationship_name[1], <<"Id">>)))
    [] f.field_type = "Id"       -> RetOk(Primary(New(Varchar(None)), TRUE))
    [] f.field_type = "AnyType"  -> RetOk(New(Unit("Jsonb")))
    [] f.field_type = "Boolean"  -> RetOk(New(Unit("Boolean")))
    [] f.field_type = "Time"     -> RetOk(New(Unit("Time")))
    [] f.field_type = "Date"     -> RetOk(New(Unit("Date")))
    [] f.field_type = "DateTime" -> RetOk(New(Unit("DateTime")))
    [] f.field_type = "Double"   -> RetOk(New(Unit("Double")))
    [] f.field_type = "Int"      -> RetOk(New(Unit("Integer")))
    [] f.field_type = "Long"     -> RetOk(New(Unit("Integer")))
    [] OTHER -> RetOk(New(Varchar(Some(AsUsize(f.length)))))

\* column_from_field; unwrap() of a missing relationship name panics
ColumnFromField(f) ==
  CASE f.field_type = "MultiPicklist" -> RetOk(Array(New(Varchar(None))))
    [] f.field_type = "Reference" ->
         IF f.relationship_name = None THEN RetErr("panic")
         ELSE RetOk(New(Foreign(f.relationship_name[1], <<"Id">>)))
    [] f.field_type = "Id"       -> RetOk(Primary(New(Varchar(None)), TRUE))
    [] f.field_type = "AnyType"  -> RetOk(New(Unit("Jsonb")))
    [] f.field_type = "Boolean"  -> RetOk(New(Unit("Boolean")))
    [] f.field_type = "Time"     -> RetOk(New(Unit("Time")))
    [] f.field_type = "Date"     -> RetOk(New(Unit("Date")))
    [] f.field_type = "DateTime" -> RetOk(New(Unit("DateTime")))
    [] f.field_type = "Double"   -> RetOk(New(Unit("Double")))
    [] f.field_type = "Int"      -> RetOk(New(Unit("Integer")))
    [] f.field_type = "Long"     -> RetOk(New(Unit("BigInt")))
    [] OTHER -> RetOk(New(Varchar(Some(AsUsize(f.length)))))

\* a main that opens the output file as soon as the loop has started
LoopDoneEarly(p, n) == p = "map"

\* the `for field in &desc.fields` loop has run to its end
LoopDone(p, n) == p = "map" /\ n = 0

\* what a failed write_all may leave in the file: the first k bytes
PartialWrites == {0, 10}

\* ------------------------------------------------------------ the state
Unset == [m \in Modifiers |-> None]

\* Table::new(name) and a fresh Type::default()
InitSql ==
  /\ cur = TypeDefault
  /\ applied = Unset
  /\ elem = None
  /\ col = None
  /\ name \in TableNames
  /\ columns = <<>>
  /\ order = <<>>
  /\ calls = <<>>
  /\ out = None
  /\ prevOut = None
  /\ lastOp = "new"
  /\ panicked = FALSE

\* nothing logged in, nothing sent
InitSession ==
  /\ lastLogin = None
  /\ failedSince = FALSE
  /\ req = None
  /\ result = None

\* main has not started; the output file is whatever was there before
InitMain ==
  /\ pc = "start"
  /\ todo = 0
  /\ field = None
  /\ file = [created |-> FALSE, writes |-> 0, content |-> "old"]

Init ==
  /\ InitSql
  /\ client = Create(BuilderDefault).val
  /\ InitSession
  /\ InitMain

\* ------------------------------------------------- operations on a Type
\* integer(), varchar(len), foreign(t, ks), custom(sql), index(cs), ...
Construct(b) ==
  /\ ~panicked
  /\ cur' = New(b)
  /\ applied' = Unset
  /\ elem' = None
  /\ col' = None
  /\ lastOp' = "new"
  /\ UNCHANGED <<tableVars, panicked, ioVars>>

Modify(m, val) ==
  /\ ~panicked
  /\ cur' = Apply(m, cur, val)
  /\ applied' = [applied EXCEPT ![m] = Some(val)]
  /\ elem' = None
  /\ col' = None
  /\ lastOp' = "modify"
  /\ UNCHANGED <<tableVars, panicked, ioVars>>

NullableCall   == \E v \in ModifierArgs("nullable")   : Modify("nullable", v)
UniqueCall     == \E v \in ModifierArgs("unique")     : Modify("unique", v)
IncrementsCall == \E v \in ModifierArgs("increments") : Modify("increments", v)
IndexedCall    == \E v \in ModifierArgs("indexed")    : Modify("indexed", v)
PrimaryCall    == \E v \in ModifierArgs("primary")    : Modify("primary", v)
SizeCall       == \E v \in ModifierArgs("size")       : Modify("size", v)
DefaultCall    == \E v \in ModifierArgs("default")    : Modify("default", v)

\* array(&cur): the argument is borrowed, the result is a new descriptor
ArrayCall ==
  /\ ~panicked
  /\ Depth(Inner(cur)) < MaxDepth
  /\ cur' = Array(cur)
  /\ elem' = Some(cur)
  /\ applied' = Unset
  /\ col' = None
  /\ lastOp' = "array"
  /\ UNCHANGED <<tableVars, panicked, ioVars>>

\* Pg::create_column(n, &cur)
CreateColumnCall(n) ==
  /\ ~panicked
  /\ LET r == CreateColumn(n, cur)
     IN  /\ col' = Some([name |-> n, res |-> r])
         /\ panicked' = ~r.ok
  /\ elem' = None
  /\ lastOp' = "create_column"
  /\ UNCHANGED <<cur, applied, tableVars, ioVars>>

\* ------------------------------------------------ operations on a Table
AddColumn(n, tp) ==
  /\ ~panicked
  /\ Len(calls) < MaxAdds
  /\ columns' = Insert(columns, n, tp)
  /\ order' \in Perms(DOMAIN columns')
  /\ calls' = Append(calls, [name |-> n, tp |-> tp])
  /\ out' = None
  /\ prevOut' = None
  /\ lastOp' = "add_column"
  /\ UNCHANGED <<typeVars, name, panicked, ioVars>>

GenerateCall ==
  /\ ~panicked
  /\ LET r == Generate(name, order, columns)
     IN  /\ out' = Some(r)
         /\ panicked' = ~r.ok
  /\ prevOut' = out
  /\ columns' = IterMut(columns)
  /\ order' = OrderAfterIter(order)
  /\ lastOp' = "generate"
  /\ UNCHANGED <<typeVars, name, calls, ioVars>>

\* ------------------------------------------------------ specifications
Next ==
  \/ \E n \in ColumnNames, tp \in ColumnInputs : AddColumn(n, tp)
  \/ GenerateCall

Spec == Init /\ [][Next]_vars

InitType == Init /\ name = "Case"

NextType ==
  \/ \E b \in ScalarBases : Construct(b)
  \/ NullableCall
  \/ UniqueCall
  \/ IncrementsCall
  \/ IndexedCall
  \/ PrimaryCall
  \/ SizeCall
  \/ DefaultCall
  \/ ArrayCall
  \/ \E n \in {"id"} : CreateColumnCall(n)

SpecType == InitType /\ [][NextType]_vars


\* ---------------------------------------------- operations on a Client
LoginWithCredentialsCall(o) ==
  /\ LET r == LoginWithCredentials(client, o)
     IN  /\ client' = r.client
         /\ req' = r.req
         /\ result' = Some(r.result)
         /\ lastLogin' = IF r.result.ok THEN Some(o.body) ELSE lastLogin
         /\ failedSince' = ~r.result.ok
  /\ lastOp' = "login"
  /\ UNCHANGED <<typeVars, tableVars, mainVars, panicked>>

AccessTokenCall ==
  /\ result' = Some(AccessToken(client))
  /\ req' = None
  /\ lastOp' = "access_token"
  /\ UNCHANGED <<typeVars, tableVars, mainVars, panicked, client, lastLogin,
                 failedSince>>

\* a call of one of the operations that talk to the instance
Request(op, r) ==
  /\ req' = r.req
  /\ result' = Some(r.result)
  /\ lastOp' = op
  /\ UNCHANGED <<typeVars, tableVars, mainVars, panicked, client, lastLogin,
                 failedSince>>

QueryCall(q, o)       == Request("query", Query(client, q, o))
DescribeCall(n, o)    == Request("describe", Describe(client, n, o))
CreateQueryJobCall(n, fs, o) ==
  Request("create_query_job", CreateQueryJob(client, n, fs, o))
GetQueryJobStatusCall(id, o) ==
  Request("get_query_job_status", GetQueryJobStatus(client, id, o))
AbortQueryJobCall(id, o) ==
  Request("abort_query_job", AbortQueryJob(client, id, o))

\* a client fresh from ClientBuilder::create
InitClient ==
  /\ InitSql
  /\ name = "Case"
  /\ client \in {Create(b).val : b \in {b \in Builders : Create(b).ok}}
  /\ InitSession
  /\ InitMain

NextClient ==
  \/ \E o \in HttpOutcomes(TokenResponses) : LoginWithCredentialsCall(o)
  \/ AccessTokenCall
  \/ \E q \in Queries, o \in HttpOutcomes(Bodies) : QueryCall(q, o)
  \/ \E n \in ObjectNames, o \in HttpOutcomes(Bodies) : DescribeCall(n, o)
  \/ \E n \in ObjectNames, fs \in JobFields, o \in HttpOutcomes(Bodies) :
       CreateQueryJobCall(n, fs, o)
  \/ \E id \in JobIds, o \in HttpOutcomes(Bodies) :
       GetQueryJobStatusCall(id, o)
  \/ \E id \in JobIds, o \in HttpOutcomes(Bodies) : AbortQueryJobCall(id, o)

SpecClient == InitClient /\ [][NextClient]_vars

\* ----------------------------------------------------- the steps of main
\* Client::builder().client_id(..).client_secret(..).login_endpoint(..)
\*   .create()?
BuildClient ==
  /\ pc = "start"
  /\ LET r == Create(BuilderDefault)
     IN  IF r.ok THEN client' = r.val /\ pc' = "login"
         ELSE client' = client /\ pc' = "create_failed"
  /\ lastOp' = "create"
  /\ UNCHANGED <<typeVars, tableVars, panicked, lastLogin, failedSince, req,
                 result, todo, field, file>>

\* client.login_with_credentials(args.username, args.password).await?
MainLogin(o) ==
  /\ pc = "login"
  /\ LET r == LoginWithCredentials(client, o)
     IN  /\ client' = r.client
         /\ req' = r.req
         /\ result' = Some(r.result)
         /\ lastLogin' = IF r.result.ok THEN Some(o.body) ELSE lastLogin
         /\ failedSince' = ~r.result.ok
         /\ pc' = IF r.result.ok THEN "describe" ELSE "login_failed"
  /\ lastOp' = "login"
  /\ UNCHANGED <<typeVars, tableVars, panicked, todo, field, file>>

\* client.describe(args.name.as_ref()).await?, then Table::new(args.name);
\* n is the number of fields of the response
MainDescribe(o, n) ==
  /\ pc = "describe"
  /\ LET r == Describe(client, name, o)
     IN  /\ req' = r.req
         /\ result' = Some(r.result)
         /\ pc' = IF r.result.ok THEN "map" ELSE "describe_failed"
         /\ todo' = IF r.result.ok THEN n ELSE todo
  /\ lastOp' = "describe"
  /\ UNCHANGED <<typeVars, tableVars, panicked, client, lastLogin,
                 failedSince, field, file>>

\* one turn of the loop: column_from_field(&field).nullable(..).unique(..)
\* and table.add_column(&field.name, column)
MapField(f) ==
  /\ pc = "map"
  /\ ~LoopDone(pc, todo)
  /\ field' = Some(f)
  /\ LET c == ColumnFromField(f)
     IN  IF c.ok
           THEN /\ columns' = Insert(columns, f.name,
                                     Unique(Nullable(c.val, f.nillable),
                                            f.unique))
                /\ order' \in Perms(DOMAIN columns')
                /\ todo' = todo - 1
                /\ UNCHANGED <<pc, panicked>>
           ELSE /\ panicked' = TRUE
                /\ pc' = "panicked"
                /\ UNCHANGED <<columns, order, todo>>
  /\ lastOp' = "map_field"
  /\ UNCHANGED <<typeVars, name, calls, out, prevOut, clientVars, file>>

\* File::create(args.output)?: the file is created or truncated
MainFileCreate(ok) ==
  /\ LoopDone(pc, todo)
  /\ IF ok
       THEN /\ file' = [created |-> TRUE, writes |-> file.writes,
                        content |-> ""]
            /\ pc' = "write"
       ELSE /\ file' = file
            /\ pc' = "file_failed"
  /\ lastOp' = "file_create"
  /\ UNCHANGED <<typeVars, tableVars, panicked, clientVars, todo, field>>

\* output.write_all(table.generate::<Pg>().as_bytes())?; k is the number
\* of bytes a failing write_all got out, None if it succeeds
MainWriteAll(k) ==
  /\ pc = "write"
  /\ LET r == Generate(name, order, columns)
     IN  /\ out' = Some(r)
         /\ prevOut' = out
         /\ columns' = IterMut(columns)
         /\ order' = OrderAfterIter(order)
         /\ IF ~r.ok
              THEN /\ panicked' = TRUE
                   /\ pc' = "panicked"
                   /\ file' = file
              ELSE /\ panicked' = panicked
                   /\ pc' = IF k = None THEN "done" ELSE "write_failed"
                   /\ file' = [created |-> TRUE, writes |-> file.writes + 1,
                               content |->
                                 IF k = None THEN r.text
                                 ELSE SubSeq(r.text, 1, k[1])]
  /\ lastOp' = "write_all"
  /\ UNCHANGED <<typeVars, name, calls, clientVars, todo, field>>

InitPipeline ==
  /\ InitSql
  /\ name = "Case"
  /\ client = Create(BuilderDefault).val
  /\ InitSession
  /\ InitMain

NextMain ==
  \/ BuildClient
  \/ \E o \in HttpOutcomes(TokenResponses) : MainLogin(o)
  \/ \E o \in HttpOutcomes(Bodies), n \in 0..MaxFields : MainDescribe(o, n)
  \/ \E f \in Fields : MapField(f)
  \/ \E ok \in BOOLEAN : MainFileCreate(ok)
  \/ \E k \in {None} \cup {Some(b) : b \in PartialWrites} : MainWriteAll(k)

SpecMain == InitPipeline /\ [][NextMain]_vars

\* =============================================================== claims
Returned(o) == o # None /\ o[1].ok

\* the names of the add_column calls, each at its first occurrence
RECURSIVE FirstAdded(_, _)
FirstAdded(cs, seen) ==
  IF cs = <<>> THEN <<>>
  ELSE IF Head(cs).name \in seen THEN FirstAdded(Tail(cs), seen)
  ELSE <<Head(cs).name>> \o FirstAdded(Tail(cs), seen \cup {Head(cs).name})

\* the descriptor of the most recent add_column call for n
LastAdded(n) ==
  LET i == CHOOSE i \in 1..Len(calls) :
             /\ calls[i].name = n
             /\ \A j \in (i + 1)..Len(calls) : calls[j].name # n
  IN  calls[i].tp

\* C1: for a table of at least two columns the text generate returns lists
\* the column definitions in the order in which their names were first
\* added, i.e. it is the text rendered from the first-insertion order.
C1_InsertionOrder ==
  (lastOp = "generate" /\ Returned(out) /\ Cardinality(DOMAIN columns) >= 2)
    => out[1].text = Generate(name, FirstAdded(calls, {}), columns).text

\* the table `Case` holding the single column `id`, added once as
\* varchar(None).primary(true), after generate
C2_Case ==
  /\ lastOp = "generate"
  /\ name = "Case"
  /\ calls = <<[name |-> "id", tp |-> Primary(New(Varchar(None)), TRUE)]>>

\* C2 as stated: table `Case` with the single column `id` of
\* varchar(None).primary(true) generates exactly
\* CREATE TABLE "Case" (\n"id" VARCHAR PRIMARY KEY\n)
C2_Original ==
  C2_Case =>
    out = Some(Ok("CREATE TABLE \"Case\" (\n\"id\" VARCHAR PRIMARY KEY\n)"))

\* C2 amended: the same table generates
\* CREATE TABLE "Case" (\n"id" VARCHAR PRIMARY KEY NOT NULL\n),
\* the descriptor being not nullable by default.
C2_Amended ==
  C2_Case =>
    out = Some(Ok("CREATE TABLE \"Case\" (\n\"id\" VARCHAR PRIMARY KEY NOT NULL\n)"))

C2_Witness == C2_Case /\ Returned(out)

\* C3: two consecutive generate calls with no add_column in between both
\* return, and return the same text.
C3_Idempotent ==
  (out # None /\ prevOut # None)
    => /\ out[1].ok
       /\ prevOut[1].ok
       /\ out[1].text = prevOut[1].text

C3_Witness ==
  /\ lastOp = "generate"
  /\ Returned(out)
  /\ Returned(prevOut)
  /\ Cardinality(DOMAIN columns) >= 2

\* C4: a generate call that returns leaves the table's name, its set of
\* column names and every column descriptor as they were before the call.
C4_GenerateFrame ==
  [][(lastOp' = "generate" /\ ~panicked')
       => /\ name' = name
          /\ DOMAIN columns' = DOMAIN columns
          /\ \A n \in DOMAIN columns : columns'[n] = columns[n]]_vars

C4_Witness ==
  /\ lastOp = "generate"
  /\ Returned(out)
  /\ \E n \in DOMAIN columns : ~columns[n].nullable

\* C5: the table holds exactly one entry per name ever added, mapped to
\* the descriptor of the most recent add_column for that name, and
\* add_column itself never fails.
C5_InsertOrReplace ==
  /\ DOMAIN columns = {calls[i].name : i \in 1..Len(calls)}
  /\ \A n \in DOMAIN columns : columns[n] = LastAdded(n)
  /\ (lastOp = "add_column" => ~panicked)

C5_Witness ==
  /\ lastOp = "add_column"
  /\ Cardinality(DOMAIN columns) >= 2
  /\ \E i, j \in 1..Len(calls) :
       /\ i < j
       /\ j = Len(calls)
       /\ calls[i].name = calls[j].name
       /\ calls[i].tp # calls[j].tp

\* the column definitions in the order generate visits them
ColumnDefs ==
  [i \in 1..Len(order) |-> CreateColumn(order[i], columns[order[i]]).text]

\* definitions with one `,\n` between neighbours
RECURSIVE Separated(_)
Separated(defs) ==
  IF defs = <<>> THEN ""
  ELSE IF Len(defs) = 1 THEN defs[1]
  ELSE defs[1] \o ",\n" \o Separated(Tail(defs))

\* the number of places at which `,\n` occurs in a text
CountSeparators(t) ==
  Cardinality({i \in 1..(Len(t) - 1) : SubSeq(t, i, i + 1) = ",\n"})

\* what C6 says generate returns for the current table
C6_Shape ==
  /\ out[1].ok
  /\ out[1].text =
       CreateTable(name)[1] \o Separated(ColumnDefs) \o CreateTable(name)[2]
  /\ CountSeparators(out[1].text) =
       (IF Len(order) = 0 THEN 0 ELSE Len(order) - 1)
  /\ ((name = "Case" /\ columns = <<>>)
        => out[1].text = "CREATE TABLE \"Case\" (\n\n)")

LastArg(m, dflt) == IF applied[m] = None THEN dflt ELSE applied[m][1]

\* the text of the default values used here
ShownDefault(d) ==
  CASE d = DText("Open")   -> "Open"
    [] d = DInteger(-7)    -> "-7"
    [] d = DBoolean(TRUE)  -> "true"

\* C7: whatever the order in which the modifiers were applied, the column
\* text is the quoted name and type token followed by ` PRIMARY KEY` iff
\* primary, ` DEFAULT '<value>'` iff a default is set, ` NOT NULL` iff not
\* nullable, ` UNIQUE` iff unique, in that order.
C7_SuffixOrder ==
  (lastOp = "create_column" /\ col[1].res.ok)
    => col[1].res.text =
         "\"" \o col[1].name \o "\" " \o Stringify(Inner(cur)).text
           \o (IF LastArg("primary", FALSE) THEN " PRIMARY KEY" ELSE "")
           \o (IF applied["default"] # None
                 THEN " DEFAULT '" \o ShownDefault(applied["default"][1]) \o "'"
                 ELSE "")
           \o (IF LastArg("nullable", FALSE) THEN "" ELSE " NOT NULL")
           \o (IF LastArg("unique", FALSE) THEN " UNIQUE" ELSE "")

C7_Witness ==
  /\ lastOp = "create_column"
  /\ col[1].res.ok
  /\ applied["primary"] = Some(TRUE)
  /\ applied["default"] = Some(DText("Open"))
  /\ applied["nullable"] = Some(FALSE)
  /\ applied["unique"] = Some(TRUE)

\* C8: on every descriptor, two different modifiers commute, a modifier
\* applied twice with the same value equals it applied once, and a
\* modifier changes no field but its own.
C8_ModifiersCommute ==
  \A m1 \in Modifiers : \A v1 \in ModifierArgs(m1) :
    /\ Apply(m1, Apply(m1, cur, v1), v1) = Apply(m1, cur, v1)
    /\ \A f \in DOMAIN cur \ {m1} : Apply(m1, cur, v1)[f] = cur[f]
    /\ \A m2 \in Modifiers \ {m1} : \A v2 \in ModifierArgs(m2) :
         Apply(m1, Apply(m2, cur, v2), v1) = Apply(m2, Apply(m1, cur, v1), v2)

C8_Witness ==
  /\ lastOp = "modify"
  /\ applied["primary"] = Some(TRUE)
  /\ applied["nullable"] = Some(TRUE)
  /\ cur.primary
  /\ cur.nullable

\* C9: array(inner) is the descriptor with all five flags false, no size
\* and no default whose base type is Array of inner's base type, whatever
\* the modifiers of inner, and inner is left as it was.
C9_ArrayStrips ==
  [][lastOp' = "array"
       => /\ cur' = [default |-> <<>>, size |-> <<>>,
                     inner |-> [tag |-> "Array", of |-> cur.inner],
                     nullable |-> FALSE, unique |-> FALSE,
                     increments |-> FALSE, indexed |-> FALSE,
                     primary |-> FALSE]
          /\ elem' = <<cur>>]_vars

C9_Witness ==
  /\ lastOp = "array"
  /\ elem # None
  /\ elem[1].primary
  /\ elem[1].nullable
  /\ elem[1].unique
  /\ elem[1].increments
  /\ elem[1].indexed
  /\ elem[1].size # None
  /\ elem[1].default # None

\* the type tokens of the specification's table
RECURSIVE TokenTable(_)
TokenTable(b) ==
  CASE b = [tag |-> "Varchar", len |-> <<>>]    -> "VARCHAR"
    [] b = [tag |-> "Varchar", len |-> <<0>>]   -> "VARCHAR"
    [] b = [tag |-> "Varchar", len |-> <<255>>] -> "VARCHAR(255)"
    [] b = [tag |-> "Boolean"]  -> "BOOLEAN"
    [] b = [tag |-> "Integer"]  -> "INTEGER"
    [] b = [tag |-> "BigInt"]   -> "BIGINT"
    [] b = [tag |-> "Text"]     -> "TEXT"
    [] b = [tag |-> "Float"]    -> "FLOAT"
    [] b = [tag |-> "Double"]   -> "DOUBLE PRECISION"
    [] b = [tag |-> "Jsonb"]    -> "JSONB"
    [] b = [tag |-> "Time"]     -> "TIME"
    [] b = [tag |-> "Date"]     -> "DATE"
    [] b = [tag |-> "DateTime"] -> "TIMESTAMP"
    [] b = [tag |-> "Custom", sql |-> "SERIAL"] -> "SERIAL"
    [] b = [tag |-> "Foreign", table |-> "Account", refs |-> <<"Id">>]
         -> "VARCHAR REFERENCES \"Account\" (Id)"
    [] b = [tag |-> "Foreign", table |-> "Owner", refs |-> <<"Id", "Name">>]
         -> "VARCHAR REFERENCES \"Owner\" (Id,Name)"
    [] b.tag = "Array" -> TokenTable(b.of) \o "[]"
    [] OTHER -> ""

\* a rendered descriptor that carries no modifier suffix
C10_Plain ==
  /\ lastOp = "create_column"
  /\ cur.nullable
  /\ ~cur.primary
  /\ ~cur.unique
  /\ cur.default = None

\* what C10 says the rendering of such a descriptor is
C10_Token ==
  /\ col[1].res.ok
  /\ col[1].res.text =
       "\"" \o col[1].name \o "\" " \o TokenTable(Inner(cur))
  /\ (Inner(cur) = [tag |-> "Array", of |->
                      [tag |-> "Array", of |-> [tag |-> "Integer"]]]
        => col[1].res.text = "\"" \o col[1].name \o "\" INTEGER[][]")

IndexColumns == {n \in DOMAIN columns : Inner(columns[n]).tag = "Index"}

\* C11: create_column on a descriptor of base type Index returns no column
\* definition, whatever its modifiers, and a generate call on a table that
\* holds at least one Index column returns no text: it panics, whatever
\* the other columns are and wherever the Index column is visited.
C11_IndexAborts ==
  /\ \A n \in IndexColumns :
       /\ ~CreateColumn(n, columns[n]).ok
       /\ \A m \in Modifiers : \A v \in ModifierArgs(m) :
            ~CreateColumn(n, Apply(m, columns[n], v)).ok
  /\ (lastOp = "generate" /\ IndexColumns # {})
       => /\ out = Some(Panic)
          /\ panicked

C11_Witness ==
  /\ lastOp = "generate"
  /\ panicked
  /\ Cardinality(DOMAIN columns) = 3
  /\ Cardinality(IndexColumns) = 1
  /\ order[3] \in IndexColumns
  /\ \A n \in DOMAIN columns : ~ContainsIndex(Inner(columns[n])) \/ n \in IndexColumns

\* the descriptors that agree with tp on base type, primary, default,
\* nullable and unique
SameRendered(tp) ==
  {[tp EXCEPT !.increments = i, !.indexed = x, !.size = z] :
     i \in BOOLEAN, x \in BOOLEAN, z \in {<<>>, <<0>>, <<255>>}}

\* C13: the result of create_column for a descriptor is the result for
\* every descriptor that differs from it only in increments, indexed or
\* size, the column name being the same.
C13_InertSettings ==
  lastOp = "create_column"
    => \A tp \in SameRendered(cur) :
         CreateColumn(col[1].name, tp) = col[1].res

C13_Witness ==
  /\ lastOp = "create_column"
  /\ col[1].res.ok
  /\ cur.increments
  /\ cur.indexed
  /\ cur.size = <<255>>
  /\ cur.inner.tag = "Varchar"

\* the operations that need a session
SessionOps == {"access_token", "query", "describe", "create_query_job",
               "get_query_job_status", "abort_query_job"}

\* C14: the access token is set iff the base path is set; once a login has
\* succeeded the token is the value, type and issue time of the latest
\* successful response, access_token() returns it, and the base path is
\* that response's instance URL followed by /services/data/<version>.
C14_TokenAndBasePath ==
  /\ (client.access_token # None) <=> (client.base_path # None)
  /\ lastLogin = None => client.access_token = None
  /\ lastLogin # None =>
       /\ client.access_token =
            <<[token_type |-> lastLogin[1].token_type,
               issued_at |-> lastLogin[1].issued_at,
               value |-> lastLogin[1].access_token]>>
       /\ client.base_path =
            <<lastLogin[1].instance_url \o "/services/data/"
                \o client.version>>
       /\ lastOp = "access_token" =>
            /\ result[1].ok
            /\ result[1].val.value = lastLogin[1].access_token
            /\ result[1].val.token_type = lastLogin[1].token_type
            /\ result[1].val.issued_at = lastLogin[1].issued_at

C14_Witness ==
  /\ lastOp = "access_token"
  /\ result[1].ok
  /\ lastLogin # None
  /\ lastLogin[1].instance_url = "https://other.my.salesforce.com"
  /\ client.version = "v50.0"
  /\ client.base_path = <<"https://other.my.salesforce.com/services/data/v50.0">>

\* C15: as long as no login has succeeded, each of access_token, query,
\* describe, create_query_job, get_query_job_status and abort_query_job
\* returns NotAuthenticatedError and sends no request.
C15_NotAuthenticated ==
  (lastOp \in SessionOps /\ lastLogin = None)
    => /\ ~result[1].ok
       /\ result[1].err = "NotAuthenticatedError"
       /\ req = None

C15_Witness ==
  /\ lastOp = "describe"
  /\ lastLogin = None
  /\ failedSince
  /\ client.instance_url # None
  /\ ~result[1].ok

\* C16: a login that returns an error leaves the client as it was, and a
\* request sent after it still goes to the base path and carries the token
\* of the latest successful login.
C16_FailedLoginFrame ==
  [][/\ (lastOp' = "login" /\ ~result'[1].ok)
          => /\ client'.access_token = client.access_token
             /\ client'.instance_url = client.instance_url
             /\ client'.base_path = client.base_path
     /\ (lastOp' \in SessionOps /\ req' # None)
          => /\ lastLogin # None
             /\ req'[1].auth = <<"Bearer " \o lastLogin[1].access_token>>
             /\ LET base == lastLogin[1].instance_url \o "/services/data/"
                              \o client.version \o "/"
                IN  SubSeq(req'[1].url, 1, Len(base)) = base
             /\ lastOp' = "describe" =>
                  req'[1].url =
                    lastLogin[1].instance_url \o "/services/data/"
                      \o client.version \o "/sobjects/Case/describe"]_vars

C16_Witness ==
  /\ lastOp = "describe"
  /\ req # None
  /\ failedSince
  /\ lastLogin # None

\* the base type the mapping table of the specification gives a field
MappedBase(f) ==
  CASE f.field_type = "MultiPicklist" ->
         [tag |-> "Array", of |-> [tag |-> "Varchar", len |-> <<>>]]
    [] f.field_type = "Reference" ->
         [tag |-> "Foreign", table |-> f.relationship_name[1],
          refs |-> <<"Id">>]
    [] f.field_type = "Id"       -> [tag |-> "Varchar", len |-> <<>>]
    [] f.field_type = "AnyType"  -> [tag |-> "Jsonb"]
    [] f.field_type = "Boolean"  -> [tag |-> "Boolean"]
    [] f.field_type = "Time"     -> [tag |-> "Time"]
    [] f.field_type = "Date"     -> [tag |-> "Date"]
    [] f.field_type = "DateTime" -> [tag |-> "DateTime"]
    [] f.field_type = "Double"   -> [tag |-> "Double"]
    [] f.field_type = "Int"      -> [tag |-> "Integer"]
    [] f.field_type = "Long"     -> [tag |-> "BigInt"]
    [] OTHER -> [tag |-> "Varchar", len |-> <<f.length>>]

\* C12: the column the loop of main adds for a field has the base type of
\* the mapping table, the field's nillable and unique flags as its
\* nullable and unique flags, and is primary exactly for an id field.
C12_FieldMapping ==
  (lastOp = "map_field" /\ ~panicked)
    => /\ field[1].name \in DOMAIN columns
       /\ LET f == field[1]
              c == columns[f.name]
          IN  /\ c.inner = MappedBase(f)
              /\ c.nullable = f.nillable
              /\ c.unique = f.unique
              /\ c.primary = (f.field_type = "Id")

C12_Witness ==
  /\ lastOp = "map_field"
  /\ ~panicked
  /\ field[1].field_type = "Reference"
  /\ field[1].nillable
  /\ field[1].unique
  /\ Cardinality(DOMAIN columns) = 2
  /\ \E n \in DOMAIN columns : columns[n].primary

\* the output file as main found it
Untouched == file = [created |-> FALSE, writes |-> 0, content |-> "old"]

\* C17: the output file is created or written only once the login and the
\* describe request have succeeded and every field has been mapped; it is
\* written at most once, and when main returns Ok it has been written
\* exactly once and holds the whole generate output; after a failed login,
\* a failed describe or a mapping that panicked the file is untouched.
C17_OutputFile ==
  /\ ~Untouched
       => /\ lastLogin # None
          /\ client.access_token # None
          /\ pc \in {"write", "done", "write_failed"}
          /\ todo = 0
          /\ ~(panicked /\ lastOp = "map_field")
  /\ file.writes <= 1
  /\ file.writes = 1 => lastOp = "write_all"
  /\ pc = "done"
       => file = [created |-> TRUE, writes |-> 1,
                  content |-> Generate(name, order, columns).text]
  /\ (pc \in {"login_failed", "describe_failed"}
        \/ (panicked /\ lastOp = "map_field"))
       => Untouched

C17_Witness ==
  /\ pc = "done"
  /\ file.writes = 1
  /\ Cardinality(DOMAIN columns) = 2
  /\ Len(file.content) > 40
====
